---- MODULE Spec2Model ----
(***************************************************************************)
(* Model of src/server.js: the GET /scrape/:platform route, the scrape()   *)
(* run (browser lifecycle, extraction, normalisation, validity filter,     *)
(* per-item upsert loop, run summary) and the products table it writes.    *)
(*                                                                         *)
(* Strings are sequences of one-character strings, so that trim, split     *)
(* and the price regexes are computed character by character.  A JS number *)
(* produced by parseFloat is NaN or a non-negative decimal m / 10^e, kept  *)
(* normalised (no trailing zero in the fraction); arithmetic on them is    *)
(* exact, not IEEE-754 binary floating point.                              *)
(***************************************************************************)
EXTENDS Integers, Sequences, FiniteSets, TLC

\* ------------------------------------------------------------------ bounds
MaxPriceLen == 3
MaxOrgLen == 2
MaxTitleLen == 8
MaxLinkLen == 3
MaxBatch == 2
MaxFail == 2
BulkFail == 1
BulkOver == 1

\* validProducts.slice(0, 50)
SampleLimit == 50
\* p.discount_rate >= 40
MinDiscount == 40
\* p.title.length > 5
MinTitleLen == 5

\* ------------------------------------------------------------- JS numbers
NaN == [nan |-> TRUE, m |-> 0, e |-> 0]

RECURSIVE Pow10(_)
Pow10(n) == IF n = 0 THEN 1 ELSE 10 * Pow10(n - 1)

RECURSIVE Norm(_, _)
Norm(m, e) ==
    IF e > 0 /\ m % 10 = 0 THEN Norm(m \div 10, e - 1)
    ELSE [nan |-> FALSE, m |-> m, e |-> e]

Zero == Norm(0, 0)

MaxE(a, b) == IF a.e >= b.e THEN a.e ELSE b.e

\* the value of a, in units of 10^-k
Scaled(a, k) == a.m * Pow10(k - a.e)

\* a > b, false when either side is NaN
Gt(a, b) == /\ ~a.nan
            /\ ~b.nan
            /\ Scaled(a, MaxE(a, b)) > Scaled(b, MaxE(a, b))

\* a === b on numbers: NaN is not equal to anything
StrictEq(a, b) == ~a.nan /\ ~b.nan /\ a = b

\* ---------------------------------------------------------------- strings
Digits == {"0", "1", "2", "3", "4", "5", "6", "7", "8", "9"}

DigitVal(c) ==
    CASE c = "0" -> 0 [] c = "1" -> 1 [] c = "2" -> 2 [] c = "3" -> 3
      [] c = "4" -> 4 [] c = "5" -> 5 [] c = "6" -> 6 [] c = "7" -> 7
      [] c = "8" -> 8 [] c = "9" -> 9

IsDigitOrComma(c) == c \in Digits \/ c = ","

\* str.replace(/[^0-9,]/g, '')
StripNonPrice(s) == SelectSeq(s, IsDigitOrComma)

\* s.replace(',', '.'): only the first comma is replaced
RECURSIVE ReplaceFirstComma(_)
ReplaceFirstComma(s) ==
    IF s = << >> THEN << >>
    ELSE IF Head(s) = "," THEN <<".">> \o Tail(s)
    ELSE <<Head(s)>> \o ReplaceFirstComma(Tail(s))

RECURSIVE DigitPrefix(_)
DigitPrefix(s) ==
    IF s = << >> \/ Head(s) \notin Digits THEN << >>
    ELSE <<Head(s)>> \o DigitPrefix(Tail(s))

RECURSIVE DigitsValue(_)
DigitsValue(s) ==
    IF s = << >> THEN 0
    ELSE 10 * DigitsValue(SubSeq(s, 1, Len(s) - 1)) + DigitVal(s[Len(s)])

\* parseFloat on a string of digits, dots and commas: the longest prefix
\* digits [. digits] or . digits; NaN when that prefix holds no digit
ParseFloat(s) ==
    LET ip == DigitPrefix(s)
        rest == SubSeq(s, Len(ip) + 1, Len(s))
        fp == IF rest # << >> /\ Head(rest) = "." THEN DigitPrefix(Tail(rest))
              ELSE << >>
    IN IF ip = << >> /\ fp = << >> THEN NaN
       ELSE Norm(DigitsValue(ip \o fp), Len(fp))

parseTRPrice(str) ==
    IF str = << >> THEN Zero
    ELSE ParseFloat(ReplaceFirstComma(StripNonPrice(str)))

\* String.prototype.trim
RECURSIVE TrimLeft(_)
TrimLeft(s) ==
    IF s # << >> /\ Head(s) = " " THEN TrimLeft(Tail(s)) ELSE s

RECURSIVE TrimRight(_)
TrimRight(s) ==
    IF s # << >> /\ s[Len(s)] = " " THEN TrimRight(SubSeq(s, 1, Len(s) - 1))
    ELSE s

Trim(s) == TrimRight(TrimLeft(s))

\* link.split('?')[0]
RECURSIVE BeforeQuery(_)
BeforeQuery(s) ==
    IF s = << >> \/ Head(s) = "?" THEN << >>
    ELSE <<Head(s)>> \o BeforeQuery(Tail(s))

\* ----------------------------------------------------------- normalisation
\* Math.round(((orgPrice - price) / orgPrice) * 100), for orgPrice > price
RoundPct(price, orgPrice) ==
    LET k == MaxE(price, orgPrice)
        o == Scaled(orgPrice, k)
        p == Scaled(price, k)
    IN (200 * (o - p) + o) \div (2 * o)

Discount(price, orgPrice) ==
    IF Gt(orgPrice, price) /\ Gt(orgPrice, Zero) THEN RoundPct(price, orgPrice)
    ELSE 0

Normalize(p, platformKey) ==
    LET price == parseTRPrice(p.priceStr)
        parsedOrg == parseTRPrice(p.orgPriceStr)
        orgPrice == IF StrictEq(parsedOrg, Zero) THEN price ELSE parsedOrg
    IN [title |-> Trim(p.title),
        price |-> price,
        original_price |-> orgPrice,
        discount_rate |-> Discount(price, orgPrice),
        image_url |-> p.img,
        product_url |-> p.link,
        platform |-> platformKey,
        external_id |-> BeforeQuery(p.link)]

NormalizeAll(products, platformKey) ==
    [i \in 1..Len(products) |-> Normalize(products[i], platformKey)]

IsValidStrictDiscount(d) ==
    /\ d.discount_rate > MinDiscount
    /\ Gt(d.price, Zero)
    /\ Len(d.title) > MinTitleLen

IsValid(d) ==
    /\ d.discount_rate >= MinDiscount
    /\ Gt(d.price, Zero)
    /\ Len(d.title) > MinTitleLen

FilterValid(ds) == SelectSeq(ds, IsValid)

\* ------------------------------------------------------------------ inputs
PriceAlphabet == {"0", "1", "6", ",", "a"}
TitleAlphabet == {"a", " "}
LinkAlphabet == {"x", "?"}

StringsUpTo(alphabet, n) == UNION {[1..k -> alphabet] : k \in 0..n}

RawItem(title, priceStr, orgPriceStr, link) ==
    [title |-> title, priceStr |-> priceStr, orgPriceStr |-> orgPriceStr,
     link |-> link, img |-> "img"]

GoodTitle == <<"a", "a", "a", "a", "a", "a">>

\* two listings of one product (same link up to '?', different query and
\* price), another product, and a listing that does not qualify
ItemA1 == RawItem(GoodTitle, <<"1">>, <<"6">>, <<"x", "?", "x">>)
ItemA2 == RawItem(GoodTitle, <<"1", ",", "6">>, <<"6">>, <<"x", "?", "?">>)
ItemB == RawItem(GoodTitle, <<"6">>, <<"1", "0">>, <<"x", "x">>)
ItemN == RawItem(<<"a", "a">>, <<"1", "0">>, <<"1", "0">>, <<"?">>)

Items == {ItemA1, ItemA2}

\* what page.evaluate can return in the concurrent specification
Listings == UNION {[1..n -> Items] : n \in 0..MaxBatch}

MixedListings == UNION {[1..n -> Items \cup {ItemB, ItemN}] : n \in 0..MaxBatch}

BulkItem(i) == IF i % 3 = 0 THEN ItemA1 ELSE IF i % 3 = 1 THEN ItemB ELSE ItemA2

BulkBatches == {[i \in 1..(SampleLimit + k) |-> BulkItem(i)] : k \in 0..BulkOver}

WideItems ==
    {RawItem(GoodTitle, p, o, <<"x">>) :
        p \in StringsUpTo(PriceAlphabet, MaxPriceLen),
        o \in StringsUpTo(PriceAlphabet, MaxOrgLen)}
    \cup {RawItem(t, <<"6">>, <<"1", "0">>, <<"x">>) :
        t \in StringsUpTo(TitleAlphabet, MaxTitleLen)}
    \cup {RawItem(GoodTitle, <<"6">>, <<"1", "0">>, l) :
        l \in StringsUpTo(LinkAlphabet, MaxLinkLen)}

\* what page.evaluate can return in the single-run specification
WideBatches == {<<it>> : it \in WideItems} \cup MixedListings

\* and in the specification of the summary's sample
LongBatches == BulkBatches \cup MixedListings

\* ------------------------------------------------------------------- state
Reqs == {"r1", "r2"}

\* CONFIG's own keys, and a key every object inherits (CONFIG['constructor']
\* is Object, which is truthy and has no url)
OwnKeys == {"trendyol", "temu"}
InheritedKeys == {"constructor"}

NoResult == [none |-> TRUE]
Undefined == [undefined |-> TRUE]
NoKey == "none"

VARIABLES
    store,          \* rows of bot_scraper.products
    pc,             \* where each request is
    platformKey,    \* req.params.platform
    browser,        \* "none", "open" or "closed"
    closeCalls,     \* how often browser.close() was called
    products,       \* page.evaluate's items
    normalized,     \* products.map(...)
    validProducts,  \* ....filter(...)
    savedItems,
    result,         \* what scrape() resolved to
    response,       \* what res.json() sent
    attempts,       \* history: per upsert of the loop, what happened
    shadowStore,    \* history: the table, had no upsert failed
    startKeys,      \* history: the keys stored when the request arrived
    doneBefore      \* history: the requests answered when it arrived

vars == <<store, pc, platformKey, browser, closeCalls, products, normalized,
          validProducts, savedItems, result, response, attempts, shadowStore,
          startKeys, doneBefore>>

Key(row) == <<row.platform, row.external_id>>
KeysOf(rows) == {Key(row) : row \in rows}
SeqKeys(s) == {Key(s[i]) : i \in 1..Len(s)}

Init ==
    /\ store = {}
    /\ shadowStore = {}
    /\ pc = [r \in Reqs |-> "idle"]
    /\ platformKey = [r \in Reqs |-> NoKey]
    /\ browser = [r \in Reqs |-> "none"]
    /\ closeCalls = [r \in Reqs |-> 0]
    /\ products = [r \in Reqs |-> << >>]
    /\ normalized = [r \in Reqs |-> << >>]
    /\ validProducts = [r \in Reqs |-> << >>]
    /\ savedItems = [r \in Reqs |-> << >>]
    /\ result = [r \in Reqs |-> NoResult]
    /\ response = [r \in Reqs |-> NoResult]
    /\ attempts = [r \in Reqs |-> << >>]
    /\ startKeys = [r \in Reqs |-> {}]
    /\ doneBefore = [r \in Reqs |-> {}]

\* ------------------------------------------------------------- the table
\* upsert(prod, {onConflict: 'platform, external_id', ignoreDuplicates: true})
UpsertRowsOverwrite(rows, prod) ==
    {row \in rows : Key(row) # Key(prod)} \cup {prod}

UpsertRows(rows, prod) ==
    IF Key(prod) \in KeysOf(rows) THEN rows ELSE rows \cup {prod}

\* the reply's data: null, or the array .select() yields, which holds the
\* rows the statement wrote (none when the duplicate was ignored)
Null == [null |-> TRUE, arr |-> << >>]
Arr(s) == [null |-> FALSE, arr |-> s]

UpsertData(rows, prod) ==
    IF Key(prod) \in KeysOf(rows) THEN Arr(<< >>) ELSE Arr(<<prod>>)

\* an array, even an empty one, is truthy; null is not
Truthy(data) == ~data.null

ShouldPushOrError(error, data) == error \/ Truthy(data)

\* if (!error && data)
ShouldPush(error, data) == ~error /\ Truthy(data)

\* data[0]
First(data) == IF Len(data.arr) > 0 THEN data.arr[1] ELSE Undefined

\* ------------------------------------------------------------ the summary
Min(a, b) == IF a <= b THEN a ELSE b

\* validProducts.slice(0, 50)
SliceNoLimit(s, n) == s

Slice(s, n) == SubSeq(s, 1, Min(n, Len(s)))

Summary(prods, valid, saved) ==
    [status |-> "success",
     total_found |-> Len(prods),
     filtered_count |-> Len(valid),
     saved_count |-> Len(saved),
     data |-> Slice(valid, SampleLimit)]

ErrorResult(msg) == [error |-> msg]

IsSummary(x) == "status" \in DOMAIN x
IsError(x) == "error" \in DOMAIN x

\* ------------------------------------------------------------ the request
Configured(key) == key \in OwnKeys \cup InheritedKeys
HasUrl(key) == key \in OwnKeys

Answered == {r \in Reqs : pc[r] = "responded"}

\* app.get('/scrape/:platform'): the handler calls scrape(), which returns at
\* once for a key CONFIG does not hold
Request(r, keys) ==
    /\ pc[r] = "idle"
    /\ \E key \in keys :
        /\ platformKey' = [platformKey EXCEPT ![r] = key]
        /\ IF Configured(key)
           THEN /\ pc' = [pc EXCEPT ![r] = "launch"]
                /\ UNCHANGED result
           ELSE /\ pc' = [pc EXCEPT ![r] = "returned"]
                /\ result' = [result EXCEPT
                              ![r] = ErrorResult("Platform not supported")]
    /\ startKeys' = [startKeys EXCEPT ![r] = KeysOf(store)]
    /\ doneBefore' = [doneBefore EXCEPT ![r] = Answered]
    /\ UNCHANGED <<store, browser, closeCalls, products, normalized,
                   validProducts, savedItems, response, attempts, shadowStore>>

\* an exception outside the try block: scrape() rejects, the handler's await
\* throws, and nothing answers the request
Escapes(r) ==
    /\ pc' = [pc EXCEPT ![r] = "unhandled"]
    /\ UNCHANGED <<store, platformKey, products, normalized, validProducts,
                   savedItems, result, response, attempts, shadowStore,
                   startKeys, doneBefore>>

Launch(r) ==
    /\ pc[r] = "launch"
    /\ pc' = [pc EXCEPT ![r] = "context"]
    /\ browser' = [browser EXCEPT ![r] = "open"]
    /\ UNCHANGED <<store, platformKey, closeCalls, products, normalized,
                   validProducts, savedItems, result, response, attempts,
                   shadowStore, startKeys, doneBefore>>

LaunchFails(r) ==
    /\ pc[r] = "launch"
    /\ Escapes(r)
    /\ UNCHANGED <<browser, closeCalls>>

NewContext(r) ==
    /\ pc[r] = "context"
    /\ pc' = [pc EXCEPT ![r] = "page"]
    /\ UNCHANGED <<store, platformKey, browser, closeCalls, products,
                   normalized, validProducts, savedItems, result, response,
                   attempts, shadowStore, startKeys, doneBefore>>

NewContextFails(r) ==
    /\ pc[r] = "context"
    /\ Escapes(r)
    /\ UNCHANGED <<browser, closeCalls>>

NewPage(r) ==
    /\ pc[r] = "page"
    /\ pc' = [pc EXCEPT ![r] = "goto"]
    /\ UNCHANGED <<store, platformKey, browser, closeCalls, products,
                   normalized, validProducts, savedItems, result, response,
                   attempts, shadowStore, startKeys, doneBefore>>

NewPageFails(r) ==
    /\ pc[r] = "page"
    /\ Escapes(r)
    /\ UNCHANGED <<browser, closeCalls>>

\* a step inside the try block that only moves the run on
PageStep(r, from, to) ==
    /\ pc[r] = from
    /\ pc' = [pc EXCEPT ![r] = to]
    /\ UNCHANGED <<store, platformKey, browser, closeCalls, products,
                   normalized, validProducts, savedItems, result, response,
                   attempts, shadowStore, startKeys, doneBefore>>

\* page.goto(config.url): an undefined url is rejected
Goto(r) == HasUrl(platformKey[r]) /\ PageStep(r, "goto", "scroll")

\* page.evaluate(scrollBy)
Scroll(r) == PageStep(r, "scroll", "wait")

\* page.waitForTimeout(3000)
WaitForTimeout(r) == PageStep(r, "wait", "extract")

\* catch (e): an exception of any awaited page call inside the try block
PageCallFails(r) ==
    /\ pc[r] \in {"goto", "scroll", "wait", "extract"}
    /\ pc' = [pc EXCEPT ![r] = "closing"]
    /\ result' = [result EXCEPT ![r] = ErrorResult("page")]
    /\ UNCHANGED <<store, platformKey, browser, closeCalls, products,
                   normalized, validProducts, savedItems, response, attempts,
                   shadowStore, startKeys, doneBefore>>

\* page.evaluate(...): the raw items of the page
Extract(r, batches) ==
    /\ pc[r] = "extract"
    /\ \E items \in batches : products' = [products EXCEPT ![r] = items]
    /\ pc' = [pc EXCEPT ![r] = "process"]
    /\ UNCHANGED <<store, platformKey, browser, closeCalls, normalized,
                   validProducts, savedItems, result, response, attempts,
                   shadowStore, startKeys, doneBefore>>

\* products.map(...).filter(...), and const savedItems = []
Process(r) ==
    /\ pc[r] = "process"
    /\ normalized' = [normalized EXCEPT
                      ![r] = NormalizeAll(products[r], platformKey[r])]
    /\ validProducts' = [validProducts EXCEPT ![r] = FilterValid(normalized'[r])]
    /\ savedItems' = [savedItems EXCEPT ![r] = << >>]
    /\ pc' = [pc EXCEPT ![r] = "upsert"]
    /\ UNCHANGED <<store, platformKey, browser, closeCalls, products, result,
                   response, attempts, shadowStore, startKeys, doneBefore>>

InLoop(r) == pc[r] = "upsert" /\ Len(attempts[r]) < Len(validProducts[r])

\* the deal of the loop's current iteration
Prod(r) == validProducts[r][Len(attempts[r]) + 1]

Failures(r) == Cardinality({i \in 1..Len(attempts[r]) : attempts[r][i].err})

\* what the same iteration does to the table where no upsert ever failed
ShadowPushed(prod) == ShouldPush(FALSE, UpsertData(shadowStore, prod))

\* one iteration of the loop whose upsert resolves without an error
UpsertReply(r) ==
    /\ InLoop(r)
    /\ LET prod == Prod(r)
           data == UpsertData(store, prod)
           push == ShouldPush(FALSE, data)
       IN /\ store' = UpsertRows(store, prod)
          /\ savedItems' = [savedItems EXCEPT
                ![r] = IF push THEN Append(@, First(data)) ELSE @]
          /\ attempts' = [attempts EXCEPT ![r] = Append(@,
                [err |-> FALSE, pushed |-> push,
                 shadowPushed |-> ShadowPushed(prod)])]
          /\ shadowStore' = UpsertRows(shadowStore, prod)
    /\ UNCHANGED <<pc, platformKey, browser, closeCalls, products, normalized,
                   validProducts, result, response, startKeys, doneBefore>>

\* one iteration whose upsert resolves to {data: null, error}: the statement
\* was refused, or it ran and its reply was lost
UpsertError(r, maxFail) ==
    /\ InLoop(r)
    /\ Failures(r) < maxFail
    /\ LET prod == Prod(r)
           push == ShouldPush(TRUE, Null)
       IN /\ store' \in {store, UpsertRows(store, prod)}
          /\ savedItems' = [savedItems EXCEPT
                ![r] = IF push THEN Append(@, First(Null)) ELSE @]
          /\ attempts' = [attempts EXCEPT ![r] = Append(@,
                [err |-> TRUE, pushed |-> push,
                 shadowPushed |-> ShadowPushed(prod)])]
          /\ shadowStore' = UpsertRows(shadowStore, prod)
    /\ UNCHANGED <<pc, platformKey, browser, closeCalls, products, normalized,
                   validProducts, result, response, startKeys, doneBefore>>

\* return {status: 'success', ...}
Return(r) ==
    /\ pc[r] = "upsert"
    /\ Len(attempts[r]) = Len(validProducts[r])
    /\ result' = [result EXCEPT
                  ![r] = Summary(products[r], validProducts[r], savedItems[r])]
    /\ pc' = [pc EXCEPT ![r] = "closing"]
    /\ UNCHANGED <<store, platformKey, browser, closeCalls, products,
                   normalized, validProducts, savedItems, response, attempts,
                   shadowStore, startKeys, doneBefore>>

\* finally { await browser.close() }
Close(r) ==
    /\ pc[r] = "closing"
    /\ browser' = [browser EXCEPT ![r] = "closed"]
    /\ closeCalls' = [closeCalls EXCEPT ![r] = @ + 1]
    /\ pc' = [pc EXCEPT ![r] = "returned"]
    /\ UNCHANGED <<store, platformKey, products, normalized, validProducts,
                   savedItems, result, response, attempts, shadowStore,
                   startKeys, doneBefore>>

\* browser.close() throws inside finally: the exception replaces the result
CloseFails(r) ==
    /\ pc[r] = "closing"
    /\ closeCalls' = [closeCalls EXCEPT ![r] = @ + 1]
    /\ UNCHANGED browser
    /\ Escapes(r)

\* res.json(result)
Respond(r) ==
    /\ pc[r] = "returned"
    /\ response' = [response EXCEPT ![r] = result[r]]
    /\ pc' = [pc EXCEPT ![r] = "responded"]
    /\ UNCHANGED <<store, platformKey, browser, closeCalls, products,
                   normalized, validProducts, savedItems, result, attempts,
                   shadowStore, startKeys, doneBefore>>

ServerNext(reqs, keys, batches, maxFail) ==
    \E r \in reqs :
        \/ Request(r, keys)
        \/ Launch(r)
        \/ LaunchFails(r)
        \/ NewContext(r)
        \/ NewContextFails(r)
        \/ NewPage(r)
        \/ NewPageFails(r)
        \/ Goto(r)
        \/ Scroll(r)
        \/ WaitForTimeout(r)
        \/ PageCallFails(r)
        \/ Extract(r, batches)
        \/ Process(r)
        \/ UpsertReply(r)
        \/ UpsertError(r, maxFail)
        \/ Return(r)
        \/ Close(r)
        \/ CloseFails(r)
        \/ Respond(r)

\* two requests in any interleaving, over short listings
Next ==
    ServerNext(Reqs, {"trendyol", "constructor", "amazon"}, Listings, MaxFail)

Spec == Init /\ [][Next]_vars

\* one request, over every price text, title and link of the bounds
SingleNext == ServerNext({"r1"}, {"trendyol", "amazon"}, WideBatches, MaxFail)

SingleSpec == Init /\ [][SingleNext]_vars

\* one request, over listings longer than the summary's sample
BulkNext == ServerNext({"r1"}, {"trendyol", "amazon"}, LongBatches, BulkFail)

BulkSpec == Init /\ [][BulkNext]_vars

\* ------------------------------------------------------------------ claims
Range(s) == {s[i] : i \in 1..Len(s)}
NoErrors(r) == \A i \in 1..Len(attempts[r]) : ~attempts[r][i].err
Finished(r) == pc[r] \in {"returned", "responded", "unhandled"}
Positive(a) == ~a.nan /\ a.m > 0

\* a <= b on numbers, false when either side is NaN
Leq(a, b) == /\ ~a.nan
             /\ ~b.nan
             /\ Scaled(a, MaxE(a, b)) <= Scaled(b, MaxE(a, b))

\* n is 100 * (o - p) / o rounded half-up
IsHalfUpPct(n, p, o) ==
    LET k == MaxE(p, o)
        os == Scaled(o, k)
        ps == Scaled(p, k)
    IN /\ 2 * os * n <= 200 * (os - ps) + os
       /\ 200 * (os - ps) + os < 2 * os * (n + 1)

\* the validity rule as the specification words it
Qualifies(raw, d) ==
    /\ d.discount_rate >= 40
    /\ Positive(d.price)
    /\ Len(Trim(raw.title)) > 5

\* C1: a run repeated right after an identical run, over deals of pairwise
\* distinct keys none of which was stored before and with no storage error,
\* reports saved_count = the number of qualifying deals the first time and
\* saved_count = 0 the second time.
C1_IdempotentRerun ==
    \A a, b \in Reqs :
        ( /\ a \in doneBefore[b]
          /\ pc[b] = "responded"
          /\ IsSummary(response[a])
          /\ IsSummary(response[b])
          /\ products[a] = products[b]
          /\ platformKey[a] = platformKey[b]
          /\ NoErrors(a)
          /\ NoErrors(b)
          /\ Cardinality(SeqKeys(validProducts[a])) = Len(validProducts[a])
          /\ SeqKeys(validProducts[a]) \cap startKeys[a] = {} )
        => /\ response[a].saved_count = Len(validProducts[a])
           /\ response[b].saved_count = 0

\* C2: the table never holds two rows of one (platform, external_id), and no
\* step changes or removes a row it holds: an upsert of a stored key leaves
\* the stored row as it is.
C2_StoreInvariant ==
    [][ /\ \A row \in store : row \in store'
        /\ Cardinality(KeysOf(store')) = Cardinality(store') ]_vars

\* an upsert has resolved for a deal whose key is stored with other fields
C2_Witness ==
    \E r \in Reqs : \E i \in 1..Len(attempts[r]) :
        /\ ~attempts[r][i].err
        /\ \E row \in store : /\ Key(row) = Key(validProducts[r][i])
                              /\ row # validProducts[r][i]

\* C3: a deal whose upsert fails is not in the saved list, every other
\* deal is saved or not exactly as where no upsert failed, the loop goes
\* through every deal, and the run resolves to a status 'success' summary.
C3_FailureIsolation ==
    \A r \in Reqs :
        /\ \A i \in 1..Len(attempts[r]) :
            /\ attempts[r][i].err => ~attempts[r][i].pushed
            /\ ~attempts[r][i].err =>
                  attempts[r][i].pushed = attempts[r][i].shadowPushed
        /\ Len(savedItems[r]) =
              Cardinality({i \in 1..Len(attempts[r]) : attempts[r][i].pushed})
        /\ (pc[r] \in {"closing", "returned", "responded"}
              /\ Len(validProducts[r]) > 0)
           => /\ Len(attempts[r]) = Len(validProducts[r])
              /\ IsSummary(result[r])
              /\ result[r].status = "success"
        /\ (pc[r] = "responded" /\ Len(validProducts[r]) > 0)
           => response[r] = result[r]

\* a run is answered where one upsert failed and a later one was saved
C3_Witness ==
    \E r \in Reqs :
        /\ pc[r] = "responded"
        /\ IsSummary(response[r])
        /\ \E i, j \in 1..Len(attempts[r]) :
            /\ i < j
            /\ attempts[r][i].err
            /\ ~attempts[r][j].err
            /\ attempts[r][j].pushed

\* C4: no exception escapes scrape() or the route handler, every answer is a
\* run summary or {error}, and a failed run is not answered with a summary.
C4_AlwaysJsonResponse ==
    \A r \in Reqs :
        /\ pc[r] # "unhandled"
        /\ pc[r] = "responded" =>
              /\ IsSummary(response[r]) \/ IsError(response[r])
              /\ IsError(result[r]) => ~IsSummary(response[r])

RECURSIVE QualifyingInOrder(_, _)
QualifyingInOrder(raws, ds) ==
    IF ds = << >> THEN << >>
    ELSE (IF Qualifies(Head(raws), Head(ds)) THEN <<Head(ds)>> ELSE << >>)
         \o QualifyingInOrder(Tail(raws), Tail(ds))

\* C5: in a success summary total_found is the number of raw items,
\* filtered_count the number of normalized items that pass the validity rule,
\* data the first min(50, filtered_count) of them in extraction order, and
\* saved_count <= filtered_count <= total_found.
C5_SummaryCounts ==
    \A r \in Reqs :
        IsSummary(result[r]) =>
            LET s == result[r]
                q == QualifyingInOrder(products[r], normalized[r])
            IN /\ s.total_found = Len(products[r])
               /\ s.filtered_count = Len(q)
               /\ Len(s.data) = Min(50, s.filtered_count)
               /\ \A i \in 1..Len(s.data) : s.data[i] = q[i]
               /\ s.saved_count <= s.filtered_count
               /\ s.filtered_count <= s.total_found

\* a summary was sent for more than 50 qualifying deals, one of them not saved
C5_Witness ==
    \E r \in Reqs :
        /\ pc[r] = "responded"
        /\ IsSummary(response[r])
        /\ response[r].filtered_count > 50
        /\ Len(response[r].data) = 50
        /\ response[r].saved_count < response[r].filtered_count

\* C6: a normalized deal is among the qualifying deals if and only if
\* discount_rate >= 40, price > 0 and its trimmed title is longer than 5.
C6_ValidityFilter ==
    \A r \in Reqs :
        pc[r] \in {"upsert", "closing", "returned", "responded"} =>
            \A i \in 1..Len(products[r]) :
                normalized[r][i] \in Range(validProducts[r])
                    <=> Qualifies(products[r][i], normalized[r][i])

\* a deal of discount_rate 40 and a title of 6 characters was kept
C6_Witness ==
    \E r \in Reqs : \E i \in 1..Len(validProducts[r]) :
        /\ validProducts[r][i].discount_rate = 40
        /\ Len(validProducts[r][i].title) = 6
        /\ pc[r] = "responded"

HasDigit(s) == \E i \in 1..Len(s) : s[i] \in Digits

\* C7: a price text that is empty or holds no number parses to 0, and the
\* raw item it is the current price of is not among the qualifying deals.
C7_PriceDegradesToZero ==
    \A r \in Reqs : \A i \in 1..Len(normalized[r]) :
        ~HasDigit(products[r][i].priceStr) =>
            /\ normalized[r][i].price = Zero
            /\ normalized[r][i] \notin Range(validProducts[r])

\* C8: discount_rate is 0 when originalPrice <= price or originalPrice <= 0,
\* otherwise 100 * (originalPrice - price) / originalPrice rounded half-up,
\* and always an integer of 0..100.
C8_DiscountRate ==
    \A r \in Reqs : \A i \in 1..Len(normalized[r]) :
        LET d == normalized[r][i]
        IN /\ d.discount_rate \in 0..100
           /\ IF Leq(d.original_price, d.price) \/ Leq(d.original_price, Zero)
              THEN d.discount_rate = 0
              ELSE /\ ~d.price.nan
                   /\ ~d.original_price.nan
                   /\ IsHalfUpPct(d.discount_rate, d.price, d.original_price)

\* C9: external_id is the link up to its first '?', and of two qualifying
\* deals of one batch whose links differ only after it, one row is stored
\* and only one is counted as saved.
C9_CollapseInBatch ==
    \A r \in Reqs :
        /\ \A i \in 1..Len(normalized[r]) :
              normalized[r][i].external_id = BeforeQuery(products[r][i].link)
        /\ (pc[r] = "responded" /\ IsSummary(response[r]) /\ NoErrors(r)) =>
              \A i, j \in 1..Len(validProducts[r]) :
                  ( /\ i < j
                    /\ Key(validProducts[r][i]) = Key(validProducts[r][j])
                    /\ Key(validProducts[r][i]) \notin startKeys[r] )
                  => /\ Cardinality({row \in store :
                            Key(row) = Key(validProducts[r][i])}) = 1
                     /\ ~(attempts[r][i].pushed /\ attempts[r][j].pushed)
                     /\ response[r].saved_count < Len(validProducts[r])

\* C10: a run that launched a browser has closed it exactly once when it
\* ends, on every path, and a run for a key no platform is configured under
\* launches no browser and attempts no upsert.
C10_BrowserClosedOnce ==
    \A r \in Reqs :
        Finished(r) =>
            /\ browser[r] # "none" =>
                  /\ closeCalls[r] = 1
                  /\ browser[r] = "closed"
            /\ platformKey[r] \notin OwnKeys =>
                  /\ browser[r] = "none"
                  /\ attempts[r] = << >>

====
